---------------------------- MODULE Spec2Model ----------------------------
(***************************************************************************)
(* Model of the NHI cancer-drug regulation pipeline: converter.parse_docx, *)
(* converter.classify_and_format, converter.main and the upload handler of *)
(* app.main.                                                               *)
(*                                                                         *)
(* TEXT.  A Python string is modelled as a sequence of tokens; the string  *)
(* is the concatenation of its tokens.  Digits, ".", "(", ")", ">", ":",   *)
(* the full-width colon and the white-space characters are one token each, *)
(* because the regular expressions of the source look at them one by one.  *)
(* A run of other characters that no pattern and no keyword of the source  *)
(* can begin or end inside is one token ("DrugX", "Dosage").  The module   *)
(* is ASCII, so every CJK run of the source is written as an English gloss *)
(* and the original is given in the comment next to it.                    *)
(***************************************************************************)
EXTENDS Naturals, Sequences, FiniteSets

(***************************************************************************)
(* Characters                                                              *)
(***************************************************************************)
\* the full-width colon U+FF1A of converter.py:48 and :115
FWCOLON == "U+FF1A"

\* \d of the regular expressions
Digits == {"0", "1", "2", "3", "4", "5", "6", "7", "8", "9"}

\* what str.strip() removes
Whitespace == {" ", "\n", "\t"}

(***************************************************************************)
(* str methods                                                             *)
(***************************************************************************)
RECURSIVE lstrip(_)
lstrip(s) ==
    IF s # <<>> /\ Head(s) \in Whitespace THEN lstrip(Tail(s)) ELSE s

RECURSIVE rstrip(_)
rstrip(s) ==
    IF s # <<>> /\ s[Len(s)] \in Whitespace
    THEN rstrip(SubSeq(s, 1, Len(s) - 1))
    ELSE s

\* s.strip()
strip(s) == rstrip(lstrip(s))

\* the Python test "sub in s"
Contains(s, sub) ==
    \E i \in 0..(Len(s) - Len(sub)) : SubSeq(s, i + 1, i + Len(sub)) = sub

\* s.split(sep) for a non-empty sep: cut at every occurrence of sep, found
\* left to right without overlap; always at least one piece
RECURSIVE split(_, _)
split(s, sep) ==
    IF ~Contains(s, sep)
    THEN <<s>>
    ELSE LET i == CHOOSE k \in 0..(Len(s) - Len(sep)) :
                      /\ SubSeq(s, k + 1, k + Len(sep)) = sep
                      /\ \A j \in 0..(k - 1) : SubSeq(s, j + 1, j + Len(sep)) # sep
         IN  <<SubSeq(s, 1, i)>> \o split(SubSeq(s, i + Len(sep) + 1, Len(s)), sep)

\* sep.join(parts)
RECURSIVE join(_, _)
join(parts, sep) ==
    IF parts = <<>> THEN <<>>
    ELSE IF Len(parts) = 1 THEN parts[1]
    ELSE parts[1] \o sep \o join(Tail(parts), sep)

\* the blank-line separator "\n\n"
BlankLine == <<"\n", "\n">>

(***************************************************************************)
(* Regular expressions.  Each is used with .match, i.e. anchored at the    *)
(* start of the string only.                                               *)
(***************************************************************************)
\* the index after the longest run of digits of s that starts at index i
RECURSIVE DigitsEnd(_, _)
DigitsEnd(s, i) ==
    IF i <= Len(s) /\ s[i] \in Digits THEN DigitsEnd(s, i + 1) ELSE i

\* \d+ at index i: the index after it, or 0 when there is no digit at i
DigitRun(s, i) == IF DigitsEnd(s, i) > i THEN DigitsEnd(s, i) ELSE 0

At(s, i, c) == i >= 1 /\ i <= Len(s) /\ s[i] = c

\* drug_pattern = ^9\.\d+\.?\s*.*
drug_pattern(s) ==
    /\ At(s, 1, "9")
    /\ At(s, 2, ".")
    /\ DigitRun(s, 3) # 0

\* \d+\. at index i
NumberDot(s, i) == DigitRun(s, i) # 0 /\ At(s, DigitRun(s, i), ".")

\* \(\d+\) at index i
BracketNumber(s, i) ==
    /\ At(s, i, "(")
    /\ DigitRun(s, i + 1) # 0
    /\ At(s, DigitRun(s, i + 1), ")")

\* numbering_pattern = ^(\d+(?:\.\d+)+\.?|\d+\.|\(\d+\))
numbering_pattern(s) ==
    \/ (NumberDot(s, 1) /\ DigitRun(s, DigitRun(s, 1) + 1) # 0)
    \/ NumberDot(s, 1)
    \/ BracketNumber(s, 1)

\* parent_pattern = ^> \d+\.
parent_pattern(s) == At(s, 1, ">") /\ At(s, 2, " ") /\ NumberDot(s, 3)

\* child_pattern = ^> \(\d+\)
child_pattern(s) == At(s, 1, ">") /\ At(s, 2, " ") /\ BracketNumber(s, 3)

\* re.split(r'[:：]', text)[0]: the text before the first colon of either width
RECURSIVE BeforeColon(_)
BeforeColon(s) ==
    IF s = <<>> \/ Head(s) \in {":", FWCOLON} THEN <<>>
    ELSE <<Head(s)>> \o BeforeColon(Tail(s))

(***************************************************************************)
(* parse_docx                                                              *)
(***************************************************************************)
\* a section record of parsed_data
Section(name, lines) ==
    [raw_drug_name |-> name, raw_regulation |-> strip(join(lines, BlankLine))]

\* the local variables before the loop; current_drug None is <<>>: the code
\* only tests its truth value, and None and "" are both false
ParseStart == [current_drug |-> <<>>, lines |-> <<>>, parsed_data |-> <<>>]

\* MUTANT of Blockquote: the numbering is never marked
Blockquote_None(text) == text

\* "> " prepended to a line that starts with a numbering
Blockquote(text) ==
    IF numbering_pattern(text) THEN <<">", " ">> \o text ELSE text

\* one iteration of the loop over doc.paragraphs
ParseStep(st, raw) ==
    LET text == strip(raw) IN
    IF text = <<>> THEN st
    ELSE IF drug_pattern(text)
    THEN [current_drug |-> strip(BeforeColon(text)),
          lines        |-> <<>>,
          parsed_data  |-> IF st.current_drug # <<>>
                           THEN Append(st.parsed_data,
                                       Section(st.current_drug, st.lines))
                           ELSE st.parsed_data]
    ELSE IF st.current_drug # <<>>
    THEN [st EXCEPT !.lines = Append(@, Blockquote(text))]
    ELSE st

RECURSIVE ParseLoop(_, _)
ParseLoop(st, paras) ==
    IF paras = <<>> THEN st
    ELSE ParseLoop(ParseStep(st, Head(paras)), Tail(paras))

\* MUTANT of ParseFlush: the section that is open at the end of the document
\* is not appended
ParseFlush_None(st) == st.parsed_data

\* "Append the last one" and return
ParseFlush(st) ==
    IF st.current_drug # <<>>
    THEN Append(st.parsed_data, Section(st.current_drug, st.lines))
    ELSE st.parsed_data

\* MUTANT of parse_docx: no test of the path and no handler around
\* docx.Document, what can be read of the file is segmented
parse_docx_NoGuard(file) == ParseFlush(ParseLoop(ParseStart, file.paragraphs))

\* a file is [status, paragraphs]: status "ok", "missing" (os.path.exists is
\* false) or "corrupt" (docx.Document raises)
parse_docx(file) ==
    IF file.status # "ok" THEN <<>>
    ELSE ParseFlush(ParseLoop(ParseStart, file.paragraphs))


(***************************************************************************)
(* classify_and_format: tables                                             *)
(***************************************************************************)
\* SYNONYM_MAPPING, keyword -> standard type, in the order of the source.
\* Keywords that contain another keyword are split at its boundary, so that
\* "keyword in para" finds the inner keyword as the code does.
SYNONYM_MAPPING == <<
    <<<<"RectalCa">>, "ColorectalCa">>,                \* 直腸癌 -> 結直腸癌
    <<<<"ColonCa">>, "ColorectalCa">>,                 \* 結腸癌
    <<<<"LargeBowelCa">>, "ColorectalCa">>,            \* 大腸癌
    <<<<"LargeBowel", "RectalCa">>, "ColorectalCa">>,  \* 大腸直腸癌
    <<<<"Colo", "RectalCa">>, "ColorectalCa">>,        \* 結直腸癌
    <<<<"GastricCa">>, "GastricCa">>,                  \* 胃癌
    <<<<"GEJunction">>, "GastricCa">>,                 \* 胃食道接合處 -> 胃癌
    <<<<"Non", "SmallCell", "LungCa">>, "LungCa">>,    \* 非小細胞肺癌 -> 肺癌
    <<<<"LungCa">>, "LungCa">>,                        \* 肺癌
    <<<<"SmallCell", "LungCa">>, "SmallCellLungCa">>,  \* 小細胞肺癌
    <<<<"BreastCa">>, "BreastCa">>,                    \* 乳癌
    <<<<"PancreaticCa">>, "PancreaticCa">>,            \* 胰臟癌
    <<<<"PancreasGlandCa">>, "PancreaticCa">>,         \* 胰腺癌
    <<<<"LiverCa">>, "LiverCa">>,                      \* 肝癌
    <<<<"HepatocellularCa">>, "LiverCa">>,             \* 肝細胞癌
    <<<<"EsophagealCa">>, "EsophagealCa">>,            \* 食道癌
    <<<<"BiliaryTractCa">>, "BiliaryTractCa">>,        \* 膽道癌
    <<<<"BileDuctCa">>, "BiliaryTractCa">>,            \* 膽管癌
    <<<<"Melanoma">>, "Melanoma">>,                    \* 黑色素瘤
    <<<<"Lymphoma">>, "Lymphoma">>,                    \* 淋巴瘤
    <<<<"Leukemia">>, "Leukemia">>,                    \* 白血病
    <<<<"UrinaryTractCa">>, "UrinaryTractCa">>,        \* 泌尿道癌
    <<<<"UrothelialCa">>, "UrinaryTractCa">>,          \* 尿路上皮癌
    <<<<"RenalCellCa">>, "RenalCellCa">>,              \* 腎細胞癌
    <<<<"KidneyCa">>, "RenalCellCa">>,                 \* 腎癌
    <<<<"HeadNeckCa">>, "HeadNeckCa">>,                \* 頭頸癌
    <<<<"OralCa">>, "HeadNeckCa">>,                    \* 口腔癌
    <<<<"HypopharyngealCa">>, "HeadNeckCa">>,          \* 下咽癌
    <<<<"OropharyngealCa">>, "HeadNeckCa">>,           \* 口咽癌
    <<<<"OvarianCa">>, "OvarianCa">>,                  \* 卵巢癌
    <<<<"ProstateCa">>, "ProstateCa">>,                \* 攝護腺癌
    <<<<"ProstateGlandCa">>, "ProstateCa">>,           \* 前列腺癌
    <<<<"ThyroidCa">>, "ThyroidCa">>,                  \* 甲狀腺癌
    <<<<"BrainCa">>, "BrainCa">>,                      \* 腦癌
    <<<<"Glioblastoma">>, "BrainCa">>,                 \* 膠質母細胞瘤
    <<<<"BoneCa">>, "BoneCa">>,                        \* 骨癌
    <<<<"SoftTissueSarcoma">>, "SoftTissueSarcoma">>,  \* 軟組織肉瘤
    <<<<"CervicalCa">>, "CervicalCa">>,                \* 子宮頸癌
    <<<<"UterineCa">>, "UterineCa">>,                  \* 子宮體癌
    <<<<"EndometrialCa">>, "UterineCa">>,              \* 子宮內膜癌
    <<<<"BladderCa">>, "BladderCa">>,                  \* 膀胱癌
    <<<<"SkinCa">>, "SkinCa">>,                        \* 皮膚癌
    <<<<"BasalCellCa">>, "SkinCa">>,                   \* 基底細胞癌
    <<<<"MultipleMyeloma">>, "MultipleMyeloma">>,      \* 多發性骨髓瘤
    <<<<"Neuroblastoma">>, "Neuroblastoma">> >>        \* 神經母細胞瘤

\* reset_keywords: 給付規定：, 給付規定:, 通則：, 通則:
reset_keywords == <<
    <<"PaymentRule", FWCOLON>>,
    <<"PaymentRule", ":">>,
    <<"GeneralRule", FWCOLON>>,
    <<"GeneralRule", ":">> >>

\* the label of the fallback entry, 未分類
Unclassified == "Unclassified"

(***************************************************************************)
(* classify_and_format: one paragraph                                      *)
(***************************************************************************)
\* is_generic_reset after the loop over reset_keywords
is_generic_reset(para) ==
    \E i \in 1..Len(reset_keywords) : Contains(para, reset_keywords[i])

is_parent(para) == parent_pattern(para)

is_child(para) == child_pattern(para)

\* found_types_set after the loop over SYNONYM_MAPPING.items()
found_types_set(para) ==
    { SYNONYM_MAPPING[i][2] :
        i \in { k \in 1..Len(SYNONYM_MAPPING) : Contains(para, SYNONYM_MAPPING[k][1]) } }

\* list(a_set): the iteration order of a set of str depends on the hash seed
\* of the process and is any order of its elements
ListOfSet(S) ==
    { l \in [1..Cardinality(S) -> S] :
        \A i, j \in 1..Cardinality(S) : i # j => l[i] # l[j] }

\* MUTANT of NextTypes: the child test comes before the reset test
NextTypes_ChildBeforeReset(para, current) ==
    IF is_child(para) THEN {current}
    ELSE IF is_generic_reset(para) THEN {<<"General">>}
    ELSE IF found_types_set(para) # {} THEN ListOfSet(found_types_set(para))
    ELSE IF is_parent(para) THEN {<<"General">>}
    ELSE {current}

\* MUTANT of NextTypes: no child branch, a child line is scanned like a plain one
NextTypes_ChildScanned(para, current) ==
    IF is_generic_reset(para) THEN {<<"General">>}
    ELSE IF found_types_set(para) # {} THEN ListOfSet(found_types_set(para))
    ELSE IF is_parent(para) THEN {<<"General">>}
    ELSE {current}

\* MUTANT of NextTypes: a parent line without keyword keeps the context
NextTypes_StickyParent(para, current) ==
    IF is_generic_reset(para) THEN {<<"General">>}
    ELSE IF is_child(para) THEN {current}
    ELSE IF found_types_set(para) # {} THEN ListOfSet(found_types_set(para))
    ELSE {current}

\* MUTANT of NextTypes: every line without keyword resets, parent or not
NextTypes_PlainResets(para, current) ==
    IF is_generic_reset(para) THEN {<<"General">>}
    ELSE IF is_child(para) THEN {current}
    ELSE IF found_types_set(para) # {} THEN ListOfSet(found_types_set(para))
    ELSE {<<"General">>}

\* a roman numbering at the start of a paragraph ("I.", "ii."), the levels
\* below the bracket numbering in the regulations; the code has no pattern
\* for it
RomanNumerals == {"I", "II", "III", "IV", "V", "i", "ii", "iii", "iv", "v"}
roman_numbered(para) ==
    Len(para) >= 2 /\ para[1] \in RomanNumerals /\ para[2] = "."

\* MUTANT of NextTypes: a line with a roman numbering inherits like a child
NextTypes_RomanInherits(para, current) ==
    IF is_generic_reset(para) THEN {<<"General">>}
    ELSE IF is_child(para) \/ roman_numbered(para) THEN {current}
    ELSE IF found_types_set(para) # {} THEN ListOfSet(found_types_set(para))
    ELSE IF is_parent(para) THEN {<<"General">>}
    ELSE {current}

\* MUTANT of NextTypes: a parent line takes what the scan found, also when
\* the scan found nothing
NextTypes_EmptyOnNoMatch(para, current) ==
    IF is_generic_reset(para) THEN {<<"General">>}
    ELSE IF is_child(para) THEN {current}
    ELSE IF is_parent(para) THEN ListOfSet(found_types_set(para))
    ELSE IF found_types_set(para) # {} THEN ListOfSet(found_types_set(para))
    ELSE {current}

\* the values current_cancer_types can have after the branching on one
\* (stripped, non-empty) paragraph
NextTypes(para, current) ==
    IF is_generic_reset(para) THEN {<<"General">>}
    ELSE IF is_child(para) THEN {current}
    ELSE IF found_types_set(para) # {} THEN ListOfSet(found_types_set(para))
    ELSE IF is_parent(para) THEN {<<"General">>}
    ELSE {current}

\* type_buckets is a dict, kept in insertion order: a sequence of
\* [key, paras].  HasKey is "c_type in type_buckets".
HasKey(buckets, c) == \E i \in 1..Len(buckets) : buckets[i].key = c

\* type_buckets[c_type] (c_type a key)
Bucket(buckets, c) ==
    buckets[CHOOSE i \in 1..Len(buckets) : buckets[i].key = c].paras

\* one iteration of "for c_type in current_cancer_types"
AddToBucket(buckets, c, para) ==
    IF HasKey(buckets, c)
    THEN [i \in 1..Len(buckets) |->
            IF buckets[i].key = c
            THEN [buckets[i] EXCEPT !.paras = Append(@, para)]
            ELSE buckets[i]]
    ELSE Append(buckets, [key |-> c, paras |-> <<para>>])

\* MUTANT of AddToBuckets: the loop stops after the first category
AddToBuckets_FirstOnly(buckets, types, para) ==
    IF types = <<>> THEN buckets
    ELSE AddToBucket(buckets, Head(types), para)

\* "Add to buckets": the whole loop
RECURSIVE AddToBuckets(_, _, _)
AddToBuckets(buckets, types, para) ==
    IF types = <<>> THEN buckets
    ELSE AddToBuckets(AddToBucket(buckets, Head(types), para), Tail(types), para)

(***************************************************************************)
(* classify_and_format: output generation for one section                  *)
(***************************************************************************)
\* list(type_buckets.keys())
Keys(buckets) == [i \in 1..Len(buckets) |-> buckets[i].key]

\* keys.remove(x) for an x in keys: drops its first occurrence
RECURSIVE Remove(_, _)
Remove(keys, x) ==
    IF keys = <<>> THEN <<>>
    ELSE IF Head(keys) = x THEN Tail(keys)
    ELSE <<Head(keys)>> \o Remove(Tail(keys), x)

\* MUTANT of OrderedKeys: General is left where it was inserted
OrderedKeys_Insertion(buckets) == Keys(buckets)

\* MUTANT of OrderedKeys: the keys other than General come last-inserted first
OrderedKeys_Reversed(buckets) ==
    LET rest == Remove(Keys(buckets), "General")
        rev  == [i \in 1..Len(rest) |-> rest[Len(rest) + 1 - i]]
    IN  IF \E i \in 1..Len(buckets) : buckets[i].key = "General"
        THEN <<"General">> \o rev
        ELSE rev

\* "Order: General first, then others"
OrderedKeys(buckets) ==
    IF \E i \in 1..Len(buckets) : buckets[i].key = "General"
    THEN <<"General">> \o Remove(Keys(buckets), "General")
    ELSE Keys(buckets)

Entry(name, c, text) ==
    [drug_name |-> name, cancer_type |-> c, regulation |-> text]

\* MUTANT of EmitEntries: no fallback entry for an empty bucket mapping
EmitEntries_NoFallback(item, buckets) ==
    [i \in 1..Len(buckets) |->
        Entry(item.raw_drug_name,
              OrderedKeys(buckets)[i],
              join(Bucket(buckets, OrderedKeys(buckets)[i]), BlankLine))]

\* MUTANT of EmitEntries: the fallback entry is labelled General
EmitEntries_FallbackGeneral(item, buckets) ==
    IF buckets = <<>>
    THEN <<Entry(item.raw_drug_name, "General", item.raw_regulation)>>
    ELSE [i \in 1..Len(buckets) |->
            Entry(item.raw_drug_name,
                  OrderedKeys(buckets)[i],
                  join(Bucket(buckets, OrderedKeys(buckets)[i]), BlankLine))]

\* the entries appended to formatted_list for one item of raw_data
EmitEntries(item, buckets) ==
    IF buckets = <<>>
    THEN <<Entry(item.raw_drug_name, Unclassified, item.raw_regulation)>>
    ELSE [i \in 1..Len(buckets) |->
            Entry(item.raw_drug_name,
                  OrderedKeys(buckets)[i],
                  join(Bucket(buckets, OrderedKeys(buckets)[i]), BlankLine))]

(***************************************************************************)
(* Input documents                                                         *)
(***************************************************************************)
\* the longest run of paragraphs after the first heading that is enumerated
MaxBody == 3

H_DrugX        == <<"9", ".", "1", " ", "DrugX">>                 \* 9.1 DrugX
H_DrugY        == <<"9", ".", "2", " ", "DrugY", FWCOLON, "BreastCa">>
                                                                  \* 9.2 DrugY：乳癌
T_ParentLung   == <<"1", ".", " ", "LungCa">>                     \* 1. 肺癌
T_ParentDosage == <<"2", ".", " ", "Dosage">>                     \* 2. Dosage
T_ParentNSCLC  == <<"3", ".", " ", "Non", "SmallCell", "LungCa">> \* 3. 非小細胞肺癌
T_ParentReset  == <<"4", ".", " ", "GeneralRule", ":", "BreastCa">>
                                                                  \* 4. 通則:乳癌
T_ChildBreast  == <<"(", "1", ")", " ", "BreastCa">>              \* (1) 乳癌
T_ChildReset   == <<"(", "2", ")", " ", "GeneralRule", FWCOLON, "BreastCa">>
                                                                  \* (2) 通則：乳癌
T_PlainNote    == <<"note">>
T_PlainMulti   == <<"BreastCa", ",", "GEJunction">>               \* 乳癌,胃食道接合處
T_PlainReset   == <<"PaymentRule", FWCOLON, "LungCa">>            \* 給付規定：肺癌
T_ChildAdult   == <<"(", "1", ")", " ", "Adult dose 100mg">>      \* (1) Adult dose 100mg
T_Child50      == <<"(", "1", ")", " ", "50mg">>                  \* (1) 50mg
T_Roman        == <<"I", ".", " ", "BreastCa">>                   \* I. 乳癌
T_RomanNote    == <<"ii", ".", " ", "note">>                      \* ii. note
T_TwoLines     == <<"note", "\n", "\n", "BreastCa">>              \* a paragraph with two line breaks
T_Blank        == <<" ">>
T_Padded       == <<" ", "1", ".", "5", "mg", "\t">>              \* " 1.5mg\t"

\* the paragraphs the enumerated documents are made of
Texts ==
    { H_DrugX,
      T_ParentLung, T_ParentDosage, T_ParentNSCLC, T_ParentReset,
      T_ChildBreast, T_ChildReset,
      T_PlainNote, T_PlainMulti }

\* the scenario of the specification's section 8
ScenarioDoc == <<H_DrugX, T_ParentLung, T_ChildAdult, T_ParentDosage, T_Child50>>

\* documents with the shapes the enumeration leaves out: no leading heading,
\* a heading with a colon, a plain line with a reset phrase, blank and padded
\* paragraphs, roman numbering, line breaks in a paragraph
ExtraDocs ==
    { ScenarioDoc,
      <<>>,
      <<T_ParentLung>>,
      <<T_PlainNote, H_DrugY, T_ParentLung, T_ChildBreast>>,
      <<H_DrugY, T_ParentLung, H_DrugX, T_ChildBreast>>,
      <<H_DrugY, H_DrugX, T_PlainMulti>>,
      <<H_DrugX, T_ParentLung, T_PlainReset, T_ChildBreast>>,
      <<H_DrugX, T_PlainMulti, T_PlainReset, T_PlainNote>>,
      <<H_DrugX, T_Blank, T_Padded>>,
      <<H_DrugX, T_ParentLung, T_Roman>>,
      <<H_DrugX, T_ParentLung, T_TwoLines>>,
      <<H_DrugX, T_ParentLung, T_PlainNote, T_PlainNote, T_ChildBreast>>,
      <<H_DrugX, T_ParentLung, T_RomanNote, T_Roman, T_ChildBreast>>,
      <<H_DrugY, T_ParentLung, H_DrugX, T_Blank>>,
      <<T_PlainNote, H_DrugY, T_ParentLung, H_DrugX, T_Blank, T_ChildBreast,
        T_PlainNote>> }

Docs ==
    { <<H_DrugX>> \o body :
        body \in UNION { [1..k -> Texts] : k \in 0..MaxBody } } \cup ExtraDocs

\* the files parse_docx can be given: a readable document, no file at the
\* path, a file python-docx cannot open (with nothing in it, or with the
\* paragraphs of a document in a damaged container)
Files ==
    { [status |-> "ok", paragraphs |-> d] : d \in Docs }
    \cup { [status |-> "missing", paragraphs |-> <<>>],
           [status |-> "corrupt", paragraphs |-> <<>>],
           [status |-> "corrupt", paragraphs |-> ScenarioDoc] }

(***************************************************************************)
(* State                                                                   *)
(***************************************************************************)
VARIABLES
    file,                 \* the document at the input path
    nhi_data,             \* the output file nhi_data.json: [exists, data]
    pc,                   \* where the run is
    raw_data,             \* the result of parse_docx
    formatted_list,       \* classify_and_format: the result so far
    item,                 \* index in raw_data of the section being classified
    paragraphs,           \* its raw_regulation, split
    p,                    \* index in paragraphs of the next paragraph
    type_buckets,         \* the buckets of the section
    current_cancer_types, \* the active categories
    shown                 \* app.main: the regulation on display

vars == <<file, nhi_data, pc, raw_data, formatted_list, item, paragraphs, p,
          type_buckets, current_cancer_types, shown>>

locals == <<item, paragraphs, p, type_buckets, current_cancer_types>>

NoFile == [exists |-> FALSE, data |-> <<>>]

\* no drug and cancer type are selected, no regulation is displayed
NoView == [drug |-> <<>>, cancer |-> "", text |-> <<>>]

\* the locals of a process that has not reached classify_and_format
Fresh ==
    /\ raw_data = <<>>
    /\ formatted_list = <<>>
    /\ item = 1
    /\ paragraphs = <<>>
    /\ p = 1
    /\ type_buckets = <<>>
    /\ current_cancer_types = <<"General">>

\* converter.main is started on some input file; there is no output file yet
Init ==
    /\ file \in Files
    /\ nhi_data = NoFile
    /\ pc = "start"
    /\ Fresh
    /\ shown = NoView

(***************************************************************************)
(* Steps of the pipeline                                                   *)
(***************************************************************************)
\* raw_data = parse_docx(path); classify_and_format starts on it
Parse ==
    /\ pc = "start"
    /\ raw_data' = parse_docx(file)
    /\ formatted_list' = <<>>
    /\ item' = 1
    /\ pc' = "classify"
    /\ UNCHANGED <<file, nhi_data, paragraphs, p, type_buckets, current_cancer_types>>
    /\ UNCHANGED shown

\* MUTANT of SectionStart: current_cancer_types is initialised once, before
\* the loop over the sections, and not again for each section
SectionStart_KeepsContext ==
    /\ pc = "classify"
    /\ item <= Len(raw_data)
    /\ paragraphs' = split(raw_data[item].raw_regulation, BlankLine)
    /\ type_buckets' = <<>>
    /\ p' = 1
    /\ pc' = "para"
    /\ UNCHANGED <<file, nhi_data, raw_data, formatted_list, item,
                   current_cancer_types>>
    /\ UNCHANGED shown

\* the head of "for item in raw_data": split the regulation, empty buckets,
\* current_cancer_types = ['General']
SectionStart ==
    /\ pc = "classify"
    /\ item <= Len(raw_data)
    /\ paragraphs' = split(raw_data[item].raw_regulation, BlankLine)
    /\ type_buckets' = <<>>
    /\ current_cancer_types' = <<"General">>
    /\ p' = 1
    /\ pc' = "para"
    /\ UNCHANGED <<file, nhi_data, raw_data, formatted_list, item>>
    /\ UNCHANGED shown

\* the paragraph the inner loop is at, stripped
Para == strip(paragraphs[p])

\* "if not para: continue"
ClassifySkip ==
    /\ pc = "para"
    /\ p <= Len(paragraphs)
    /\ Para = <<>>
    /\ p' = p + 1
    /\ UNCHANGED <<file, nhi_data, pc, raw_data, formatted_list, item, paragraphs,
                   type_buckets, current_cancer_types>>
    /\ UNCHANGED shown

\* one paragraph: the branching on reset, child, parent and plain, then the
\* bucketing under every active category
ClassifyPara ==
    /\ pc = "para"
    /\ p <= Len(paragraphs)
    /\ Para # <<>>
    /\ \E types \in NextTypes(Para, current_cancer_types) :
          /\ current_cancer_types' = types
          /\ type_buckets' = AddToBuckets(type_buckets, types, Para)
    /\ p' = p + 1
    /\ UNCHANGED <<file, nhi_data, pc, raw_data, formatted_list, item, paragraphs>>
    /\ UNCHANGED shown

\* "Output Generation" for the section, and on to the next item
EmitSection ==
    /\ pc = "para"
    /\ p > Len(paragraphs)
    /\ formatted_list' = formatted_list \o EmitEntries(raw_data[item], type_buckets)
    /\ item' = item + 1
    /\ pc' = "classify"
    /\ UNCHANGED <<file, nhi_data, raw_data, paragraphs, p, type_buckets,
                   current_cancer_types>>
    /\ UNCHANGED shown

\* "return formatted_list"
Return ==
    /\ pc = "classify"
    /\ item > Len(raw_data)
    /\ pc' = "save"
    /\ UNCHANGED <<file, nhi_data, raw_data, formatted_list, locals>>
    /\ UNCHANGED shown

\* converter.main: json.dump(final_data) into nhi_data.json
Save ==
    /\ pc = "save"
    /\ nhi_data' = [exists |-> TRUE, data |-> formatted_list]
    /\ pc' = "done"
    /\ UNCHANGED <<file, raw_data, formatted_list, locals>>
    /\ UNCHANGED shown

\* converter.main is run again, in a new process, on the same input file
Rerun ==
    /\ pc = "done"
    /\ pc' = "start"
    /\ raw_data' = <<>>
    /\ formatted_list' = <<>>
    /\ item' = 1
    /\ paragraphs' = <<>>
    /\ p' = 1
    /\ type_buckets' = <<>>
    /\ current_cancer_types' = <<"General">>
    /\ UNCHANGED <<file, nhi_data>>
    /\ UNCHANGED shown

\* one run of converter.main
Next ==
    \/ Parse
    \/ SectionStart
    \/ ClassifySkip
    \/ ClassifyPara
    \/ EmitSection
    \/ Return
    \/ Save

Spec == Init /\ [][Next]_vars

\* converter.main run any number of times on the same input file
NextAgain ==
    \/ Parse
    \/ SectionStart
    \/ ClassifySkip
    \/ ClassifyPara
    \/ EmitSection
    \/ Return
    \/ Save
    \/ Rerun

SpecAgain == Init /\ [][NextAgain]_vars

(***************************************************************************)
(* app.main: the upload handler.  Each upload is written to the temporary  *)
(* path, run through the pipeline and saved over nhi_data.json.            *)
(***************************************************************************)
\* no upload is being handled: there is no file at the temporary path
NoUpload == [status |-> "none", paragraphs |-> <<>>]

\* the documents uploaded
AppDocs ==
    { <<H_DrugX, T_ParentLung, T_ChildBreast>>,
      <<H_DrugY, T_PlainMulti>>,
      <<H_DrugY, H_DrugX, T_ParentDosage>>,
      <<H_DrugX, T_ParentLung, H_DrugX, T_ParentLung, T_PlainNote>> }

\* what the uploader can hand over: the bytes are written to the temporary
\* path, so the file exists; python-docx may still fail to open it
AppFiles ==
    { [status |-> "ok", paragraphs |-> d] : d \in AppDocs }
    \cup { [status |-> "corrupt", paragraphs |-> <<>>] }

InitApp ==
    /\ file = NoUpload
    /\ nhi_data = NoFile
    /\ pc = "idle"
    /\ Fresh
    /\ shown = NoView

\* uploaded_file is not None: its bytes are written to temp_regulations.docx
Upload ==
    /\ pc = "idle"
    /\ file' \in AppFiles
    /\ pc' = "start"
    /\ UNCHANGED <<nhi_data, raw_data, formatted_list, locals>>
    /\ UNCHANGED shown

\* json.dump(final_data) into nhi_data.json, os.remove(temp_path), st.rerun()
AppSave ==
    /\ pc = "save"
    /\ nhi_data' = [exists |-> TRUE, data |-> formatted_list]
    /\ file' = NoUpload
    /\ pc' = "idle"
    /\ raw_data' = <<>>
    /\ formatted_list' = <<>>
    /\ item' = 1
    /\ paragraphs' = <<>>
    /\ p' = 1
    /\ type_buckets' = <<>>
    /\ current_cancer_types' = <<"General">>
    /\ shown' = NoView

\* all_drugs: the drug names the first select box offers
all_drugs(data) == { data[i].drug_name : i \in 1..Len(data) }

\* available_cancers: the cancer types the second select box offers
available_cancers(data, selected_drug) ==
    { data[i].cancer_type :
        i \in { k \in 1..Len(data) : data[k].drug_name = selected_drug } }

\* the default of the lookup
NoRegulation == <<"No regulation found for this combination.">>

\* MUTANT of regulation_text: the last matching entry wins
RECURSIVE regulation_text_Last(_, _, _)
regulation_text_Last(data, selected_drug, selected_cancer) ==
    IF data = <<>> THEN NoRegulation
    ELSE LET last == data[Len(data)] IN
         IF /\ last.drug_name = selected_drug
            /\ last.cancer_type = selected_cancer
         THEN last.regulation
         ELSE regulation_text_Last(SubSeq(data, 1, Len(data) - 1),
                                   selected_drug, selected_cancer)

\* next((item['regulation'] for item in data if ...), default): the
\* generator is advanced once, so the first matching entry is taken
RECURSIVE regulation_text(_, _, _)
regulation_text(data, selected_drug, selected_cancer) ==
    IF data = <<>> THEN NoRegulation
    ELSE IF /\ Head(data).drug_name = selected_drug
            /\ Head(data).cancer_type = selected_cancer
         THEN Head(data).regulation
         ELSE regulation_text(Tail(data), selected_drug, selected_cancer)

\* a run of the script without upload: the data file is loaded, the user
\* selects a drug and one of its cancer types, the regulation is displayed
Lookup ==
    /\ pc = "idle"
    /\ nhi_data.exists
    /\ \E selected_drug \in all_drugs(nhi_data.data) :
          \E selected_cancer \in
                  available_cancers(nhi_data.data, selected_drug) :
              shown' = [drug   |-> selected_drug,
                        cancer |-> selected_cancer,
                        text   |-> regulation_text(nhi_data.data,
                                       selected_drug, selected_cancer)]
    /\ UNCHANGED <<file, nhi_data, pc, raw_data, formatted_list, locals>>

NextApp ==
    \/ Lookup
    \/ Upload
    \/ Parse
    \/ SectionStart
    \/ ClassifySkip
    \/ ClassifyPara
    \/ EmitSection
    \/ Return
    \/ AppSave

SpecApp == InitApp /\ [][NextApp]_vars

(***************************************************************************)
(* Observations used by the properties                                     *)
(***************************************************************************)
\* every category a bucket can be named after
Types == { SYNONYM_MAPPING[i][2] : i \in 1..Len(SYNONYM_MAPPING) } \cup {"General"}

\* the inner loop is about to classify the non-empty paragraph Para
AtPara == pc = "para" /\ p <= Len(paragraphs) /\ Para # <<>>

\* the k-th last paragraph the inner loop has passed
Prev(k) == strip(paragraphs[p - k])

\* the inner loop has just classified the non-empty paragraph Prev(1)
JustDid == pc = "para" /\ p > 1 /\ p - 1 <= Len(paragraphs) /\ Prev(1) # <<>>

\* a list as a set, and whether it lists S without repetition
ActiveSet(l) == { l[i] : i \in 1..Len(l) }
Lists(l, S) == ActiveSet(l) = S /\ Len(l) = Cardinality(S)

\* the paragraphs under category c, none if there is no such bucket
Content(buckets, c) == IF HasKey(buckets, c) THEN Bucket(buckets, c) ELSE <<>>

\* this step appends Para to exactly the buckets of the categories in S
BucketedUnder(S) ==
    /\ \A i \in 1..Len(type_buckets') : type_buckets'[i].key \in Types
    /\ \A c \in Types :
          IF c \in S
          THEN Content(type_buckets', c) = Append(Content(type_buckets, c), Para)
          ELSE /\ Content(type_buckets', c) = Content(type_buckets, c)
               /\ HasKey(type_buckets', c) = HasKey(type_buckets, c)

\* neither parent nor child line, and no reset phrase
is_plain(para) == ~is_parent(para) /\ ~is_child(para) /\ ~is_generic_reset(para)

(***************************************************************************)
(* C1  Reset precedence: a paragraph that contains a reset phrase leaves   *)
(* the active categories equal to [General] and is appended to the General *)
(* bucket and to no other, whatever its tag and its keywords.              *)
(***************************************************************************)
C1_ResetPrecedence ==
    [][ (AtPara /\ is_generic_reset(Para))
          => /\ current_cancer_types' = <<"General">>
             /\ BucketedUnder({"General"}) ]_vars

\* a child line with a reset phrase and a keyword has been classified right
\* after a keyword line, and went to General alone
C1_Witness ==
    /\ JustDid /\ p > 2
    /\ is_generic_reset(Prev(1)) /\ is_child(Prev(1))
    /\ found_types_set(Prev(1)) # {}
    /\ is_parent(Prev(2)) /\ ~is_generic_reset(Prev(2))
    /\ found_types_set(Prev(2)) # {}
    /\ current_cancer_types = <<"General">>
    /\ Content(type_buckets, "General") = <<Prev(1)>>

(***************************************************************************)
(* C2  Child inheritance.  As claimed: a child line never alters the       *)
(* active categories, whatever its text.                                   *)
(***************************************************************************)
C2_ChildNeverAlters ==
    [][ (AtPara /\ is_child(Para))
          => current_cancer_types' = current_cancer_types ]_vars

(***************************************************************************)
(* C2 as amended: a child line that contains no reset phrase leaves the    *)
(* active categories as the preceding paragraph (or the seed) left them,   *)
(* and is appended to their buckets; with a reset phrase the active        *)
(* categories become [General].                                            *)
(***************************************************************************)
C2_ChildInherits ==
    [][ (AtPara /\ is_child(Para))
          => IF is_generic_reset(Para)
             THEN current_cancer_types' = <<"General">>
             ELSE /\ current_cancer_types' = current_cancer_types
                  /\ BucketedUnder(ActiveSet(current_cancer_types)) ]_vars

\* a child line with a keyword of its own has been classified and the active
\* category is still the one of the parent line before it
C2_Witness ==
    /\ JustDid /\ p > 2
    /\ is_child(Prev(1)) /\ ~is_generic_reset(Prev(1))
    /\ found_types_set(Prev(1)) = {"BreastCa"}
    /\ is_parent(Prev(2)) /\ ~is_generic_reset(Prev(2))
    /\ found_types_set(Prev(2)) = {"LungCa"}
    /\ current_cancer_types = <<"LungCa">>
    /\ Content(type_buckets, "LungCa") = <<Prev(2), Prev(1)>>

(***************************************************************************)
(* C3  Parent reset.  As claimed: a parent line without keyword leaves the *)
(* active categories equal to [General]; a parent line with keywords makes *)
(* them exactly the categories of its keywords.                            *)
(***************************************************************************)
C3_ParentAsClaimed ==
    [][ (AtPara /\ is_parent(Para))
          => IF found_types_set(Para) = {}
             THEN current_cancer_types' = <<"General">>
             ELSE Lists(current_cancer_types', found_types_set(Para)) ]_vars

(***************************************************************************)
(* C3 as amended: a parent line without keyword leaves the active          *)
(* categories equal to [General]; a parent line with keywords and without  *)
(* reset phrase makes them exactly the categories of its keywords; with a  *)
(* reset phrase they become [General].                                     *)
(***************************************************************************)
C3_ParentReset ==
    [][ (AtPara /\ is_parent(Para))
          => IF found_types_set(Para) = {} \/ is_generic_reset(Para)
             THEN current_cancer_types' = <<"General">>
             ELSE Lists(current_cancer_types', found_types_set(Para)) ]_vars

\* a parent line without keyword has been classified right after a parent
\* line with a keyword, and the active category is General again
C3_Witness ==
    /\ JustDid /\ p > 2
    /\ is_parent(Prev(1)) /\ ~is_generic_reset(Prev(1))
    /\ found_types_set(Prev(1)) = {}
    /\ is_parent(Prev(2)) /\ ~is_generic_reset(Prev(2))
    /\ found_types_set(Prev(2)) # {}
    /\ HasKey(type_buckets, "LungCa")
    /\ current_cancer_types = <<"General">>

(***************************************************************************)
(* C4  Sticky context: a plain line without keyword leaves the active      *)
(* categories unchanged, a plain line with keywords makes them exactly the *)
(* categories of its keywords; so after any run of skipped or keyword-free *)
(* plain lines the active categories are those the last other line set.    *)
(***************************************************************************)
\* skipped, or plain without keyword
Quiet(para) == para = <<>> \/ (is_plain(para) /\ found_types_set(para) = {})

\* the index of the last paragraph passed that is not Quiet, 0 if none
LastLoud ==
    LET loud == { j \in 1..(p - 1) : ~Quiet(strip(paragraphs[j])) }
    IN  IF loud = {} THEN 0 ELSE CHOOSE j \in loud : \A k \in loud : k <= j

StickyRun ==
    pc = "para" =>
        IF LastLoud = 0 THEN current_cancer_types = <<"General">>
        ELSE LET q == strip(paragraphs[LastLoud]) IN
             /\ is_generic_reset(q) => current_cancer_types = <<"General">>
             /\ (~is_generic_reset(q) /\ ~is_child(q) /\ found_types_set(q) # {})
                   => Lists(current_cancer_types, found_types_set(q))
             /\ (~is_generic_reset(q) /\ is_parent(q) /\ found_types_set(q) = {})
                   => current_cancer_types = <<"General">>

C4_StickyContext ==
    /\ [][ (AtPara /\ is_plain(Para))
             => IF found_types_set(Para) = {}
                THEN current_cancer_types' = current_cancer_types
                ELSE Lists(current_cancer_types', found_types_set(Para)) ]_vars
    /\ []StickyRun

\* two keyword-free plain lines in a row have been classified after a parent
\* line with a keyword, and its category is still the active one
C4_Witness ==
    /\ JustDid /\ p > 3
    /\ is_plain(Prev(1)) /\ found_types_set(Prev(1)) = {}
    /\ is_plain(Prev(2)) /\ found_types_set(Prev(2)) = {} /\ Prev(2) # <<>>
    /\ is_parent(Prev(3)) /\ found_types_set(Prev(3)) = {"LungCa"}
    /\ current_cancer_types = <<"LungCa">>
    /\ Content(type_buckets, "LungCa") = <<Prev(3), Prev(2), Prev(1)>>

(***************************************************************************)
(* C5  Multiplicity.  As claimed: a parent line, or a plain line (no       *)
(* numbering, no reset phrase), whose keywords name k >= 1 categories is   *)
(* appended to the buckets of those k categories and to no other.          *)
(***************************************************************************)
C5_MultiplicityAsClaimed ==
    [][ (AtPara /\ (is_parent(Para) \/ is_plain(Para))
               /\ found_types_set(Para) # {})
          => BucketedUnder(found_types_set(Para)) ]_vars

(***************************************************************************)
(* C5 as amended: a parent or plain line without reset phrase whose        *)
(* keywords name k >= 1 categories is appended to the buckets of those k   *)
(* categories and to no other.                                             *)
(***************************************************************************)
C5_Multiplicity ==
    [][ (AtPara /\ ~is_child(Para) /\ ~is_generic_reset(Para)
               /\ found_types_set(Para) # {})
          => BucketedUnder(found_types_set(Para)) ]_vars

\* a line naming two categories has been classified and is the last
\* paragraph of both buckets, and there is no third bucket
C5_Witness ==
    /\ JustDid
    /\ ~is_child(Prev(1)) /\ ~is_generic_reset(Prev(1))
    /\ Cardinality(found_types_set(Prev(1))) = 2
    /\ Len(type_buckets) = 2
    /\ \A c \in found_types_set(Prev(1)) : Content(type_buckets, c) = <<Prev(1)>>

(***************************************************************************)
(* C6  Determinism: two runs of the pipeline on the same paragraphs give   *)
(* the same output, entry for entry and in the same order.  Under         *)
(* SpecAgain the output file was written by an earlier run of              *)
(* converter.main on the same input file, so the result a later run is     *)
(* about to write must equal it.                                           *)
(***************************************************************************)
C6_Determinism ==
    (pc = "save" /\ nhi_data.exists) => formatted_list = nhi_data.data

(***************************************************************************)
(* C7  A failed refresh never destroys a previously good result: while an  *)
(* upload that cannot be opened is being handled, a nhi_data.json that     *)
(* holds data is not changed.                                              *)
(***************************************************************************)
C7_FailedRefreshKeepsData ==
    [][ (file.status = "corrupt" /\ nhi_data.exists /\ nhi_data.data # <<>>)
          => nhi_data' = nhi_data ]_vars

(***************************************************************************)
(* Observations on the output generation                                   *)
(***************************************************************************)
\* the inner loop is over and the section's entries are about to be emitted
AtEmit == pc = "para" /\ p > Len(paragraphs)

\* the entries this step appends to formatted_list
NewEntries ==
    SubSeq(formatted_list', Len(formatted_list) + 1, Len(formatted_list'))

\* paragraph i of the input is a heading
IsHeading(i) == drug_pattern(strip(file.paragraphs[i]))

\* the section that heading i opens: the number of headings up to i
SectionOf(i) == Cardinality({ j \in 1..i : IsHeading(j) })

\* a heading followed at once by another heading or by the end of the input
\* gives a section without text
EmptySectionParsed ==
    (pc # "start" /\ file.status = "ok") =>
        \A i \in 1..Len(file.paragraphs) :
            (IsHeading(i) /\ (i = Len(file.paragraphs) \/ IsHeading(i + 1)))
                => /\ SectionOf(i) <= Len(raw_data)
                   /\ raw_data[SectionOf(i)].raw_regulation = <<>>

(***************************************************************************)
(* C8  Empty section.  As claimed: a heading followed at once by another   *)
(* heading or by the end of the input gives a section without paragraphs,  *)
(* for which exactly one entry is emitted, of category General and with an *)
(* empty regulation.                                                       *)
(***************************************************************************)
C8_EmptySectionAsClaimed ==
    /\ []EmptySectionParsed
    /\ [][ (AtEmit /\ raw_data[item].raw_regulation = <<>>)
             => NewEntries = <<Entry(raw_data[item].raw_drug_name, "General", <<>>)>> ]_vars

(***************************************************************************)
(* C8 as amended: a heading followed at once by another heading or by the  *)
(* end of the input gives a section without paragraphs, for which exactly  *)
(* one entry is emitted, of the fallback category 未分類 (Unclassified)    *)
(* and with an empty regulation.                                           *)
(***************************************************************************)
C8_EmptySection ==
    /\ []EmptySectionParsed
    /\ [][ (AtEmit /\ raw_data[item].raw_regulation = <<>>)
             => NewEntries = <<Entry(raw_data[item].raw_drug_name, Unclassified, <<>>)>> ]_vars

\* the entry of a section without text has been emitted, and another
\* section follows it
C8_Witness ==
    /\ pc = "classify" /\ item > 1 /\ item <= Len(raw_data)
    /\ raw_data[item - 1].raw_regulation = <<>>
    /\ formatted_list # <<>>
    /\ formatted_list[Len(formatted_list)] =
          Entry(raw_data[item - 1].raw_drug_name, Unclassified, <<>>)

(***************************************************************************)
(* C9  Ordering: among the entries emitted for one section, an entry of    *)
(* category General is the first one.                                      *)
(***************************************************************************)
C9_GeneralFirst ==
    [][ AtEmit
          => \A i \in 1..Len(NewEntries) :
                NewEntries[i].cancer_type = "General" => i = 1 ]_vars

\* a section whose General bucket was created after another bucket has been
\* emitted, General entry first
C9_Witness ==
    /\ pc = "classify" /\ item > 1
    /\ Len(type_buckets) >= 2
    /\ type_buckets[1].key # "General"
    /\ HasKey(type_buckets, "General")
    /\ Len(formatted_list) >= Len(type_buckets)
    /\ formatted_list[Len(formatted_list) - Len(type_buckets) + 1].cancer_type = "General"
    /\ formatted_list[Len(formatted_list) - Len(type_buckets) + 2].cancer_type
          = type_buckets[1].key

(***************************************************************************)
(* C10  Scenario.  As claimed: the paragraphs "9.1 DrugX", "1. 肺癌",      *)
(* "(1) Adult dose 100mg", "2. Dosage", "(1) 50mg" give one section named  *)
(* "DrugX" and the entries (DrugX, General, "2. Dosage\n\n(1) 50mg") and   *)
(* (DrugX, 肺癌, "1. 肺癌\n\n(1) Adult dose 100mg"), in this order.        *)
(***************************************************************************)
C10_ScenarioAsClaimed ==
    (pc = "save" /\ file.status = "ok" /\ file.paragraphs = ScenarioDoc) =>
        /\ Len(raw_data) = 1
        /\ raw_data[1].raw_drug_name = <<"DrugX">>
        /\ formatted_list =
             << Entry(<<"DrugX">>, "General",
                      T_ParentDosage \o BlankLine \o T_Child50),
                Entry(<<"DrugX">>, "LungCa",
                      T_ParentLung \o BlankLine \o T_ChildAdult) >>

(***************************************************************************)
(* C10 as amended: the same paragraphs give one section named "9.1 DrugX"  *)
(* and the entries (9.1 DrugX, General, "> 2. Dosage\n\n> (1) 50mg") and   *)
(* (9.1 DrugX, 肺癌, "> 1. 肺癌\n\n> (1) Adult dose 100mg"), in this       *)
(* order: the name keeps the heading's number and every numbered line its  *)
(* "> " mark.                                                              *)
(***************************************************************************)
C10_Scenario ==
    (pc = "save" /\ file.status = "ok" /\ file.paragraphs = ScenarioDoc) =>
        /\ Len(raw_data) = 1
        /\ raw_data[1].raw_drug_name = <<"9", ".", "1", " ", "DrugX">>
        /\ formatted_list =
             << Entry(<<"9", ".", "1", " ", "DrugX">>, "General",
                      <<">", " ", "2", ".", " ", "Dosage", "\n", "\n",
                        ">", " ", "(", "1", ")", " ", "50mg">>),
                Entry(<<"9", ".", "1", " ", "DrugX">>, "LungCa",
                      <<">", " ", "1", ".", " ", "LungCa", "\n", "\n",
                        ">", " ", "(", "1", ")", " ", "Adult dose 100mg">>) >>

\* the pipeline has run to its end on the scenario
C10_Witness ==
    /\ pc = "save" /\ file.status = "ok" /\ file.paragraphs = ScenarioDoc
    /\ Len(formatted_list) = 2


(***************************************************************************)
(* Observations on the segmentation                                        *)
(***************************************************************************)
\* paragraph i of the input reaches the segmenter: it is not blank
Streamed(i) == strip(file.paragraphs[i]) # <<>>

\* the positions of the heading paragraphs
Headings == { i \in 1..Len(file.paragraphs) : IsHeading(i) }

\* the heading that opens the k-th section
HeadingAt(k) == CHOOSE i \in Headings : SectionOf(i) = k

\* the position after the last paragraph that follows heading i and precedes
\* the next heading
SectionEnd(i) ==
    IF \E j \in Headings : j > i
    THEN CHOOSE j \in Headings :
             j > i /\ \A k \in Headings : k > i => j <= k
    ELSE Len(file.paragraphs) + 1

\* the paragraphs at the positions lo..hi that reach the segmenter, in the
\* order of the document, each as it is stored in a section
RECURSIVE BodyOf(_, _)
BodyOf(lo, hi) ==
    IF lo > hi THEN <<>>
    ELSE (IF Streamed(lo)
          THEN <<Blockquote(strip(file.paragraphs[lo]))>>
          ELSE <<>>) \o BodyOf(lo + 1, hi)

(***************************************************************************)
(* C11  Segmentation: parse_docx returns one section per heading           *)
(* paragraph, in the order of the headings; the k-th section is named by   *)
(* the k-th heading and holds exactly the non-heading paragraphs between   *)
(* that heading and the next one (or the end), in their order, joined by   *)
(* blank lines.  Hence a paragraph before the first heading is in no       *)
(* section and every later one is in the section of the nearest heading    *)
(* before it.                                                              *)
(***************************************************************************)
C11_Segmentation ==
    (pc # "start" /\ file.status = "ok") =>
        /\ Len(raw_data) = Cardinality(Headings)
        /\ \A k \in 1..Len(raw_data) :
               LET i == HeadingAt(k) IN
               /\ raw_data[k].raw_drug_name =
                      strip(BeforeColon(strip(file.paragraphs[i])))
               /\ raw_data[k].raw_regulation =
                      join(BodyOf(i + 1, SectionEnd(i) - 1), BlankLine)

\* a document with a paragraph before the first heading and two sections
\* that both hold paragraphs has been segmented
C11_Witness ==
    /\ pc = "classify"
    /\ file.status = "ok"
    /\ Len(file.paragraphs) > 1
    /\ Streamed(1) /\ ~IsHeading(1)
    /\ Len(raw_data) = 2
    /\ Len(BodyOf(HeadingAt(1) + 1, SectionEnd(HeadingAt(1)) - 1)) = 1
    /\ Len(BodyOf(HeadingAt(2) + 1, Len(file.paragraphs))) = 2
    /\ raw_data[2].raw_regulation # <<>>


Carries(para) ==
    \/ para = <<>>
    \/ /\ ~is_generic_reset(para)
       /\ is_child(para) \/ (~is_parent(para) /\ found_types_set(para) = {})

\* the paragraphs of the current section that the inner loop has passed
Passed == { strip(paragraphs[j]) : j \in 1..(p - 1) } \ {<<>>}

\* the entries emitted for the section classified last: one per bucket, or
\* the single entry of a section without bucket
LastEmitted ==
    LET n == IF type_buckets = <<>> THEN 1 ELSE Len(type_buckets) IN
    SubSeq(formatted_list, Len(formatted_list) - n + 1, Len(formatted_list))

(***************************************************************************)
(* C13  Per-section state: at the start of every section the active        *)
(* categories are [General] and there is no bucket; as long as the         *)
(* section's paragraphs only carry the active categories along, these are  *)
(* [General] and General is the only bucket, whatever the section before   *)
(* ended with; the buckets hold paragraphs of this section only; and the   *)
(* entries emitted for a section carry its own name and the categories of  *)
(* its own buckets.                                                        *)
(***************************************************************************)
C13_PerSectionState ==
    /\ pc = "para" =>
          /\ p = 1 => /\ current_cancer_types = <<"General">>
                      /\ type_buckets = <<>>
          /\ (\A j \in 1..(p - 1) : Carries(strip(paragraphs[j])))
                => /\ current_cancer_types = <<"General">>
                   /\ \A i \in 1..Len(type_buckets) :
                          type_buckets[i].key = "General"
          /\ \A i \in 1..Len(type_buckets) :
                 \A k \in 1..Len(type_buckets[i].paras) :
                     type_buckets[i].paras[k] \in Passed
    /\ (pc = "classify" /\ item > 1) =>
          \A i \in 1..Len(LastEmitted) :
              /\ LastEmitted[i].drug_name = raw_data[item - 1].raw_drug_name
              /\ \/ HasKey(type_buckets, LastEmitted[i].cancer_type)
                 \/ type_buckets = <<>>

\* the first section ended with an active category other than General; the
\* second section starts with a child line, which has been classified under
\* General
C13_Witness ==
    /\ pc = "para" /\ item = 2 /\ p = 2
    /\ is_child(Prev(1)) /\ ~is_generic_reset(Prev(1))
    /\ formatted_list # <<>>
    /\ formatted_list[Len(formatted_list)].cancer_type = "LungCa"
    /\ current_cancer_types = <<"General">>
    /\ type_buckets = << [key |-> "General", paras |-> <<Prev(1)>>] >>


(***************************************************************************)
(* C14  Unique pairs: in the result of classify_and_format no two entries  *)
(* have the same drug_name and the same cancer_type.                       *)
(***************************************************************************)
C14_UniquePairs ==
    pc = "save" =>
        \A i, j \in 1..Len(formatted_list) :
            (/\ formatted_list[i].drug_name = formatted_list[j].drug_name
             /\ formatted_list[i].cancer_type = formatted_list[j].cancer_type)
                => i = j


(***************************************************************************)
(* C15  Emitter order.  Buckets are kept in the order in which they        *)
(* received their first paragraph and each bucket holds its paragraphs in  *)
(* the order of the document: a step on a paragraph leaves the existing    *)
(* buckets in place, appends the paragraph to some of them and adds new    *)
(* buckets, holding just this paragraph, at the end.  The entries of a     *)
(* section are one per bucket; the entries of two buckets other than       *)
(* General are in the order of the buckets; the text of an entry is its    *)
(* bucket's paragraphs joined by blank lines.                              *)
(***************************************************************************)
C15_EmitterOrder ==
    [][ /\ AtPara =>
             /\ Len(type_buckets') >= Len(type_buckets)
             /\ \A i \in 1..Len(type_buckets) :
                    /\ type_buckets'[i].key = type_buckets[i].key
                    /\ type_buckets'[i].paras
                          \in { type_buckets[i].paras,
                                Append(type_buckets[i].paras, Para) }
             /\ \A i \in (Len(type_buckets) + 1)..Len(type_buckets') :
                    type_buckets'[i].paras = <<Para>>
        /\ (AtEmit /\ type_buckets # <<>>) =>
             /\ Len(NewEntries) = Len(type_buckets)
             /\ \A i \in 1..Len(type_buckets) :
                    \E k \in 1..Len(NewEntries) :
                        /\ NewEntries[k].cancer_type = type_buckets[i].key
                        /\ NewEntries[k].regulation =
                               join(type_buckets[i].paras, BlankLine)
             /\ \A i, j \in 1..Len(type_buckets) :
                    (/\ i < j
                     /\ type_buckets[i].key # "General"
                     /\ type_buckets[j].key # "General")
                       => \E k, l \in 1..Len(NewEntries) :
                              /\ k < l
                              /\ NewEntries[k].cancer_type = type_buckets[i].key
                              /\ NewEntries[l].cancer_type = type_buckets[j].key
      ]_vars

\* a section with two buckets other than General, each with two paragraphs,
\* and a General bucket created last has been emitted: General first, then
\* the two in the order of their first paragraphs
C15_Witness ==
    /\ pc = "classify" /\ item > 1
    /\ Len(type_buckets) = 3
    /\ type_buckets[3].key = "General"
    /\ Len(type_buckets[1].paras) = 2
    /\ Len(formatted_list) >= 3
    /\ LET base == Len(formatted_list) - 3 IN
       /\ formatted_list[base + 1].cancer_type = "General"
       /\ \A i \in 1..2 :
             /\ formatted_list[base + 1 + i].cancer_type = type_buckets[i].key
             /\ formatted_list[base + 1 + i].regulation =
                    type_buckets[i].paras[1] \o BlankLine
                       \o type_buckets[i].paras[2]


(***************************************************************************)
(* C16  Source unavailable: when the input file is missing or cannot be    *)
(* opened as a document, parse_docx returns the empty list, also when the  *)
(* damaged file holds paragraphs; classify_and_format has no section to    *)
(* work on and returns the empty list; the run goes on to write that       *)
(* result.                                                                 *)
(***************************************************************************)
C16_SourceUnavailable ==
    file.status \in {"missing", "corrupt"} =>
        /\ raw_data = <<>>
        /\ formatted_list = <<>>
        /\ pc \in {"start", "classify", "save", "done"}
        /\ pc = "classify" => item > Len(raw_data)
        /\ pc = "done" => nhi_data = [exists |-> TRUE, data |-> <<>>]

\* a damaged file that holds paragraphs has been parsed and classified, and
\* the empty result is about to be written
C16_Witness ==
    /\ file.status = "corrupt"
    /\ file.paragraphs # <<>>
    /\ pc = "save"
    /\ raw_data = <<>>
    /\ formatted_list = <<>>


(***************************************************************************)
(* C17  Fallback entry: when a section has been classified, it has no      *)
(* bucket exactly if no non-blank paragraph follows its heading; then the  *)
(* only entry emitted for it has the category "未分類" and the section's   *)
(* regulation text as parse_docx stored it; in every other case none of    *)
(* its entries has the category "未分類".                                  *)
(***************************************************************************)
C17_FallbackEntry ==
    [][ (AtEmit /\ file.status = "ok")
          => LET i == HeadingAt(item) IN
             /\ type_buckets = <<>>
                   <=> BodyOf(i + 1, SectionEnd(i) - 1) = <<>>
             /\ IF type_buckets = <<>>
                THEN NewEntries =
                       << [drug_name   |-> raw_data[item].raw_drug_name,
                           cancer_type |-> Unclassified,
                           regulation  |-> raw_data[item].raw_regulation] >>
                ELSE /\ NewEntries # <<>>
                     /\ \A k \in 1..Len(NewEntries) :
                            NewEntries[k].cancer_type # Unclassified ]_vars

\* the input ends with a heading followed by a blank paragraph only, after a
\* section with a bucket: the entry of the first section is classified, the
\* last entry is the fallback entry
C17_Witness ==
    /\ pc = "classify" /\ item = 3 /\ Len(raw_data) = 2
    /\ file.status = "ok"
    /\ Len(file.paragraphs) = HeadingAt(2) + 1
    /\ ~Streamed(Len(file.paragraphs))
    /\ type_buckets = <<>>
    /\ Len(formatted_list) = 2
    /\ formatted_list[1].cancer_type # Unclassified
    /\ formatted_list[2].cancer_type = Unclassified
    /\ formatted_list[2].regulation = <<>>


(***************************************************************************)
(* C18  No paragraph lost: while a section is classified the list of       *)
(* active categories is never empty; the paragraph classified last is the  *)
(* last paragraph of at least one bucket; the paragraphs in the buckets    *)
(* are exactly the non-empty paragraphs passed so far; and once the        *)
(* section is emitted, every non-empty paragraph of it is part of the text *)
(* of at least one of its entries.                                         *)
(***************************************************************************)
C18_NoParagraphLost ==
    /\ pc = "para" =>
          /\ current_cancer_types # <<>>
          /\ JustDid =>
                \E i \in 1..Len(type_buckets) :
                    LET b == type_buckets[i].paras IN
                    b # <<>> /\ b[Len(b)] = Prev(1)
          /\ UNION { { type_buckets[i].paras[k] :
                           k \in 1..Len(type_buckets[i].paras) } :
                       i \in 1..Len(type_buckets) } = Passed
    /\ (pc = "classify" /\ item > 1) =>
          \A j \in 1..Len(paragraphs) :
              strip(paragraphs[j]) # <<>> =>
                  \E i \in 1..Len(LastEmitted) :
                      Contains(LastEmitted[i].regulation, strip(paragraphs[j]))

\* a section of three paragraphs, the second a parent line without keyword
\* and the third a child line, has been emitted in two entries that together
\* hold the three paragraphs
C18_Witness ==
    /\ pc = "classify" /\ item > 1
    /\ Len(paragraphs) = 3
    /\ found_types_set(strip(paragraphs[1])) # {}
    /\ is_parent(strip(paragraphs[2]))
    /\ found_types_set(strip(paragraphs[2])) = {}
    /\ ~is_generic_reset(strip(paragraphs[2]))
    /\ is_child(strip(paragraphs[3]))
    /\ Len(LastEmitted) = 2
    /\ LastEmitted[1].cancer_type = "General"
    /\ LastEmitted[1].regulation =
          strip(paragraphs[2]) \o BlankLine \o strip(paragraphs[3])
    /\ LastEmitted[2].regulation = strip(paragraphs[1])


(***************************************************************************)
(* Observations on the hand-off from parse_docx to classify_and_format     *)
(***************************************************************************)
\* the members of a list of paragraphs that the inner loop does not skip,
\* stripped
RECURSIVE Kept(_)
Kept(paras) ==
    IF paras = <<>> THEN <<>>
    ELSE (IF strip(Head(paras)) # <<>> THEN <<strip(Head(paras))>> ELSE <<>>)
             \o Kept(Tail(paras))

(***************************************************************************)
(* C19  Hand-off round trip: the paragraphs that classify_and_format       *)
(* processes for a section are, one for one and in order, the paragraphs   *)
(* that parse_docx collected for it: joining them with blank lines and     *)
(* splitting at blank lines neither merges, nor splits, nor drops one.     *)
(***************************************************************************)
C19_HandOffRoundTrip ==
    (pc = "para" /\ file.status = "ok") =>
        LET i == HeadingAt(item) IN
        Kept(paragraphs) = BodyOf(i + 1, SectionEnd(i) - 1)


(***************************************************************************)
(* Observations on the lookup                                              *)
(***************************************************************************)
\* the positions in the stored data of the entries with the pair on display
Matches ==
    { i \in 1..Len(nhi_data.data) :
        /\ nhi_data.data[i].drug_name = shown.drug
        /\ nhi_data.data[i].cancer_type = shown.cancer }

(***************************************************************************)
(* C20  Lookup tie-break: the regulation on display for a selected drug    *)
(* and cancer type is the regulation of the first entry of the stored data *)
(* with that pair, also when several entries have it; the text "No         *)
(* regulation found" is the result of the lookup exactly for the pairs     *)
(* that no entry has.                                                      *)
(***************************************************************************)
C20_LookupTieBreak ==
    /\ shown # NoView =>
          IF Matches = {}
          THEN shown.text = NoRegulation
          ELSE /\ shown.text # NoRegulation
               /\ shown.text =
                     nhi_data.data[CHOOSE i \in Matches :
                                       \A k \in Matches : i <= k].regulation
    /\ nhi_data.exists =>
          \A d \in all_drugs(nhi_data.data) :
              \A c \in Types \cup {Unclassified} :
                  regulation_text(nhi_data.data, d, c) = NoRegulation
                     <=> ~ \E i \in 1..Len(nhi_data.data) :
                               /\ nhi_data.data[i].drug_name = d
                               /\ nhi_data.data[i].cancer_type = c

\* the stored data has two entries with the selected pair and different
\* regulations, and the first one's regulation is on display
C20_Witness ==
    /\ shown # NoView
    /\ Cardinality(Matches) = 2
    /\ \E i, k \in Matches :
          /\ i < k
          /\ nhi_data.data[i].regulation # nhi_data.data[k].regulation
          /\ shown.text = nhi_data.data[i].regulation

=============================================================================
